---- MODULE Spec2Model ----
(***************************************************************************)
(* A model of pydocx's DocxParser: the annotation pass (parse_begin) and   *)
(* the recursive tree walk (parse, parse_list, parse_p, parse_r) over a    *)
(* namespace-stripped document tree.                                        *)
(*                                                                         *)
(* An element is a record [tag, attrs, text, kids]; its identity is its    *)
(* path from the root (the sequence of child positions), so `parent` is    *)
(* the path without its last position.  Markup is a sequence of tokens;    *)
(* the empty string is the empty sequence.                                  *)
(***************************************************************************)
EXTENDS Integers, Sequences, FiniteSets, TLC

VARIABLES
    root,               \* self.root: the parsed document tree
    numbering_root,     \* self.numbering_root (present = FALSE: it is None)
    comment_root,       \* self.comment_root (present = FALSE: it is None)
    comment_store,      \* self.comment_store (present = FALSE: it is None)
    comment_calls,      \* trace of the get_comments calls on this parser
    finished,           \* the parsers of earlier conversions: input, _parsed
    pc,                 \* position of the conversion
    idx,                \* position of parse's child loop over the body
    is_list_item,       \* set of elements whose is_list_item is True
    num_id,             \* element -> num_id (None when never set)
    ilvl,               \* element -> ilvl (None when never set)
    is_first_list_item, \* set of elements flagged first
    is_last_list_item,  \* set of elements flagged last
    next,               \* element -> next content sibling (NoneEl when unset)
    rels_dict,          \* self.rels_dict: relationship id -> target
    visited,            \* self.visited
    visited_els,        \* self.visited_els
    count,              \* self.count
    list_depth,         \* self.list_depth
    body_parsed,        \* `parsed` of the parse(body) activation in progress
    parsed_out,         \* self._parsed
    err,                \* the exception that ended the conversion, "" if none
    log,                \* trace of parse activations: calls and returns
    list_log            \* trace of parse_list activations and of the
                        \* paragraphs parse_p renders, with list_depth

vars == <<root, numbering_root, comment_root, comment_store, comment_calls,
          finished, pc, idx, is_list_item, num_id, ilvl,
          is_first_list_item, is_last_list_item, next, rels_dict, visited,
          visited_els,
          count, list_depth, body_parsed, parsed_out, err, log, list_log>>

-----------------------------------------------------------------------------
(* Values *)

None == "None"          \* Python's None where a string is expected
Absent == "~"           \* an attribute that is not in el.attrib
NoneEl == <<0>>         \* Python's None where an element is expected
NoEx == ""              \* no exception raised
\* comment_root = None: no word/comments.xml in the package
NoComments == [present |-> FALSE, comments |-> <<>>]
\* comment_store = None
NoStore == [present |-> FALSE, entries |-> <<>>]

Attrs0 ==
    [val |-> Absent, type |-> Absent, id |-> Absent,
     right |-> Absent, left |-> Absent, firstLine |-> Absent,
     embed |-> Absent, cx |-> Absent, cy |-> Absent, style |-> Absent]

El(tag, attrs, text, kids) ==
    [tag |-> tag, attrs |-> attrs, text |-> text, kids |-> kids]

-----------------------------------------------------------------------------
(* ElementTree helpers *)

RECURSIVE NodeAt(_, _)
NodeAt(n, p) == IF p = <<>> THEN n ELSE NodeAt(n.kids[Head(p)], Tail(p))

Node(p) == NodeAt(root, p)

parent(p) == IF p = <<>> THEN NoneEl ELSE SubSeq(p, 1, Len(p) - 1)

getchildren(p) == [i \in 1..Len(Node(p).kids) |-> Append(p, i)]

InSeq(x, s) == \E i \in 1..Len(s) : s[i] = x

\* the elements of s that have the tag
Filter(s, tag) ==
    LET HasTag(p) == Node(p).tag = tag
    IN SelectSeq(s, HasTag)

\* el.iter(): the element and all its descendants, in document order
RECURSIVE el_iter(_), IterKids(_, _)
el_iter(p) == <<p>> \o IterKids(p, 1)
IterKids(p, i) ==
    IF i > Len(Node(p).kids) THEN <<>>
    ELSE el_iter(Append(p, i)) \o IterKids(p, i + 1)

\* self.findall('.//' + tag): descendants only
find_all(p, tag) == Filter(Tail(el_iter(p)), tag)

\* self.find(tag): first direct child with the tag, or None
find(p, tag) ==
    LET s == Filter(getchildren(p), tag)
    IN IF s = <<>> THEN NoneEl ELSE Head(s)

find_first(p, tag) ==
    LET s == find_all(p, tag)
    IN IF s = <<>> THEN NoneEl ELSE Head(s)

has_child(p, tag) == find(p, tag) # NoneEl

has_child_deep(p, tag) == find_first(p, tag) # NoneEl

\* find_next raises IndexError when find_all(tag)[count] does not exist
find_next(p, tag, cnt) ==
    LET all == find_all(p, tag)
    IN IF Len(all) = 0 \/ cnt + 1 > Len(all)
       THEN [exc |-> "IndexError", el |-> NoneEl]
       ELSE IF all[Len(all)] = all[cnt + 1]
       THEN [exc |-> NoEx, el |-> NoneEl]
       ELSE [exc |-> NoEx, el |-> all[cnt + 2]]

RECURSIVE find_parent_by_tag(_, _)
find_parent_by_tag(p, tag) ==
    IF parent(p) = NoneEl THEN NoneEl
    ELSE IF Node(parent(p)).tag = tag THEN parent(p)
    ELSE find_parent_by_tag(parent(p), tag)

\* el.get(name): None when the attribute is absent
get(p, name) ==
    IF Node(p).attrs[name] = Absent THEN None ELSE Node(p).attrs[name]

-----------------------------------------------------------------------------
(* The rendering contract: the abstract methods, as token wrappers *)

Wrap(open, text, close) == <<open>> \o text \o <<close>>

paragraph(text) == Wrap("<p>", text, "</p>")
bold(text) == Wrap("<b>", text, "</b>")
italics(text) == Wrap("<i>", text, "</i>")
underline(text) == Wrap("<u>", text, "</u>")
unordered_list(text) == Wrap("<ul>", text, "</ul>")
ordered_list(text, lst_style) == <<"<ol", lst_style, ">">> \o text \o <<"</ol>">>
list_element(text) == Wrap("<li>", text, "</li>")
table(text) == Wrap("<table>", text, "</table>")
table_row(text) == Wrap("<tr>", text, "</tr>")
table_cell(text) == Wrap("<td>", text, "</td>")
insertion(text, author, date) == Wrap("<ins>", text, "</ins>")
deletion(text, author, date) == Wrap("<del>", text, "</del>")
hyperlink(text, href) == <<"<a">> \o href \o <<">">> \o text \o <<"</a>">>
right_justify(text) == Wrap("<right>", text, "</right>")
center_justify(text) == Wrap("<center>", text, "</center>")
indent(text, left, right, firstLine) ==
    <<"<indent", "left", left, "right", right, "firstLine", firstLine, ">">>
    \o text \o <<"</indent>">>
\* a size is a sequence of tokens: "168px" is <<"168", "px">>
image(path, x, y) ==
    <<"<img">> \o path \o <<"width">> \o x \o <<"height">> \o y \o <<"/>">>
page_break == <<"<hr />">>
break_tag == <<"<br />">>

\* escape(text): markup characters are replaced; None has no string methods
escape(text) ==
    IF text = None THEN [exc |-> "AttributeError", out |-> <<>>]
    ELSE IF text = "<" THEN [exc |-> NoEx, out |-> <<"&lt;">>]
    ELSE IF text = "&" THEN [exc |-> NoEx, out |-> <<"&amp;">>]
    ELSE [exc |-> NoEx, out |-> <<text>>]

-----------------------------------------------------------------------------
(* Annotations as the renderer reads them *)

IsListItem(p) == p \in is_list_item
IsFirst(p) == p \in is_first_list_item
IsLast(p) == p \in is_last_list_item
NumId(p) == IF p \in DOMAIN num_id THEN num_id[p] ELSE None
Ilvl(p) == IF p \in DOMAIN ilvl THEN ilvl[p] ELSE None
NextOf(p) == IF p \in DOMAIN next THEN next[p] ELSE NoneEl

\* Python 2 orders str values lexically; ilvl values are compared as strings
LexOrder == <<"0", "1", "10", "2", "3">>
LexRank(str) == CHOOSE i \in 1..Len(LexOrder) : LexOrder[i] = str
StrGE(a, b) == LexRank(a) >= LexRank(b)

-----------------------------------------------------------------------------
(* The numbering part *)

\* the numFmt of the first level, in document order, of the abstractNum
\* whose ilvl attribute is absent or equal to ilvl and that has a numFmt
RECURSIVE LevelFmt(_, _)
LevelFmt(lvls, lvl) ==
    IF lvls = <<>> THEN None
    ELSE IF Head(lvls).ilvl # Absent /\ Head(lvls).ilvl # lvl
    THEN LevelFmt(Tail(lvls), lvl)
    ELSE IF Head(lvls).numFmt # Absent THEN Head(lvls).numFmt
    ELSE LevelFmt(Tail(lvls), lvl)

RECURSIVE AbstractFmt(_, _, _)
AbstractFmt(infos, abstractid, lvl) ==
    IF infos = <<>> THEN None
    ELSE IF Head(infos).abstractNumId = abstractid
            /\ LevelFmt(Head(infos).lvls, lvl) # None
    THEN LevelFmt(Head(infos).lvls, lvl)
    ELSE AbstractFmt(Tail(infos), abstractid, lvl)

RECURSIVE NumFmt(_, _, _)
NumFmt(ids, nid, lvl) ==
    IF ids = <<>> THEN None
    ELSE IF Head(ids).numId = nid
            /\ AbstractFmt(numbering_root.abstractNums,
                           Head(ids).abstractNumId, lvl) # None
    THEN AbstractFmt(numbering_root.abstractNums, Head(ids).abstractNumId, lvl)
    ELSE NumFmt(Tail(ids), nid, lvl)

get_list_style(nid, lvl) ==
    IF ~numbering_root.present THEN [exc |-> "AttributeError", val |-> None]
    ELSE [exc |-> NoEx, val |-> NumFmt(numbering_root.nums, nid, lvl)]

-----------------------------------------------------------------------------
(* The renderer.  Each method takes the parser's mutable fields as a record *)
(* s = [visited, visited_els, count, list_depth, err, log, list_log] and    *)
(* returns                                                                 *)
(* [out, none, s]: the returned markup, whether the method returned None,   *)
(* and the fields afterwards.  A raised exception is s.err # NoEx.          *)

Ret(out, s) == [out |-> out, none |-> FALSE, s |-> s]
RetNone(s) == [out |-> <<>>, none |-> TRUE, s |-> s]
Raise(s, exc) == [out |-> <<>>, none |-> FALSE, s |-> [s EXCEPT !.err = exc]]
Failed(r) == r.s.err # NoEx

Logged(s, ev, el, nonempty) ==
    [s EXCEPT !.log = Append(@, [ev |-> ev, el |-> el, nonempty |-> nonempty])]

\* an event of list_log, with the list_depth at that point
ListLogged(s, ev, el) ==
    [s EXCEPT !.list_log =
        Append(@, [ev |-> ev, el |-> el, depth |-> s.list_depth])]

\* parsed += r, where r is the result of a call: str + None is a TypeError
Concat(parsed, r) ==
    IF Failed(r) THEN r
    ELSE IF r.none THEN Raise(r.s, "TypeError")
    ELSE Ret(parsed \o r.out, r.s)

_is_style_on(el) == get(el, "val") # "false"

\* int(value) / 20 as a str, for the numerals the documents use
IntOf(str) ==
    CASE str = "0" -> 0 [] str = "30" -> 30 [] str = "720" -> 720
      [] str = "1440" -> 1440 [] str = "9524" -> 9524
      [] str = "1600200" -> 1600200 [] str = "2324100" -> 2324100
Twentieth(str) == ToString(IntOf(str) \div 20)

\* rpr.has_child(tag) and _is_style_on(rpr.find(tag)), rpr = el.find('rPr')
StyleOn(rpr, tag) ==
    /\ rpr # NoneEl
    /\ has_child(rpr, tag)
    /\ _is_style_on(find(rpr, tag))

Bold(el, text) ==
    IF StyleOn(find(el, "rPr"), "b") THEN bold(text) ELSE text
Italics(el, text) ==
    IF StyleOn(find(el, "rPr"), "i") THEN italics(text) ELSE text
Underline(el, text) ==
    IF StyleOn(find(el, "rPr"), "u") THEN underline(text) ELSE text

\* jc = ppr.find('jc'), ind = ppr.find('ind'): None without a pPr
PprChild(ppr, tag) == IF ppr = NoneEl THEN NoneEl ELSE find(ppr, tag)

RightJustify(jc, text) ==
    IF jc # NoneEl /\ get(jc, "val") = "right"
    THEN right_justify(text) ELSE text
CenterJustify(jc, text) ==
    IF jc # NoneEl /\ get(jc, "val") = "center"
    THEN center_justify(text) ELSE text

IndValue(ind, name) ==
    IF get(ind, name) = None THEN None ELSE Twentieth(get(ind, name))
Indent(ind, text) ==
    IF ind = NoneEl THEN text
    ELSE indent(text, IndValue(ind, "right"), IndValue(ind, "left"),
                IndValue(ind, "firstLine"))

Deletion(is_deleted, text) ==
    IF is_deleted THEN deletion(text, "", "") ELSE text

\* jc.attrib['val'] raises KeyError when jc has no val
JcError(jc) == jc # NoneEl /\ get(jc, "val") = None

\* the styling of parse_r with the deletion applied first
RunStyleDeletionFirst(el, text, is_deleted) ==
    Indent(PprChild(find(parent(el), "pPr"), "ind"),
      CenterJustify(PprChild(find(parent(el), "pPr"), "jc"),
        RightJustify(PprChild(find(parent(el), "pPr"), "jc"),
          Underline(el, Italics(el, Bold(el, Deletion(is_deleted, text)))))))

\* the styling of parse_r, applied to a non-empty text
RunStyle(el, text, is_deleted) ==
    Deletion(is_deleted,
      Indent(PprChild(find(parent(el), "pPr"), "ind"),
        CenterJustify(PprChild(find(parent(el), "pPr"), "jc"),
          RightJustify(PprChild(find(parent(el), "pPr"), "jc"),
            Underline(el, Italics(el, Bold(el, text)))))))

\* self.rels_dict.get(rId)
Href(rId) == IF rId \in DOMAIN rels_dict THEN rels_dict[rId] ELSE None

EMUS_PER_PIXEL == 9525

_get_image_id(el) ==
    IF find_first(el, "blip") # NoneEl THEN get(find_first(el, "blip"), "embed")
    ELSE IF find_first(el, "imagedata") # NoneEl
    THEN get(find_first(el, "imagedata"), "id")
    ELSE None

_convert_image_size(size) == size \div EMUS_PER_PIXEL

\* '%dpx' % _convert_image_size(int(value))
Pixels(value) == <<ToString(_convert_image_size(IntOf(value))), "px">>

\* style.split(';') with each declaration split at ':', for the styles the
\* documents use
Declarations(style) ==
    CASE style = "width:10px;height:20px" ->
            <<<<"width", "10px">>, <<"height", "20px">>>>
      [] style = "height:20px" -> <<<<"height", "20px">>>>
      [] style = "" -> <<<<"">>>>

\* the value of the last declaration that starts with name, 0 without one
RECURSIVE Declared(_, _, _)
Declared(decls, name, value) ==
    IF decls = <<>> THEN value
    ELSE Declared(Tail(decls), name,
                  IF Head(decls)[1] = name THEN <<Head(decls)[2]>> ELSE value)

\* sizes of a shape: shape.get('style') is None without the attribute
ShapeSize(shape) ==
    IF get(shape, "style") = None
    THEN [exc |-> "AttributeError", x |-> <<>>, y |-> <<>>]
    ELSE [exc |-> NoEx,
          x |-> Declared(Declarations(get(shape, "style")), "width", <<"0">>),
          y |-> Declared(Declarations(get(shape, "style")), "height", <<"0">>)]

\* sizes of an ext: int(None) is a TypeError
ExtSize(sizes) ==
    IF get(sizes, "cx") = None \/ get(sizes, "cy") = None
    THEN [exc |-> "TypeError", x |-> <<>>, y |-> <<>>]
    ELSE [exc |-> NoEx, x |-> Pixels(get(sizes, "cx")),
          y |-> Pixels(get(sizes, "cy"))]

_get_image_size(el) ==
    IF find_first(el, "ext") # NoneEl THEN ExtSize(find_first(el, "ext"))
    ELSE IF find_first(el, "shape") # NoneEl
    THEN ShapeSize(find_first(el, "shape"))
    ELSE [exc |-> NoEx, x |-> <<"0">>, y |-> <<"0">>]

\* the end of parse_image, for the size and the target found
ImageOf(size, src) ==
    IF size.exc # NoEx THEN [exc |-> size.exc, out |-> <<>>]
    ELSE IF src = None \/ src = "" THEN [exc |-> NoEx, out |-> <<>>]
    ELSE [exc |-> NoEx, out |-> image(escape(src).out, size.x, size.y)]

parse_image(el) == ImageOf(_get_image_size(el), Href(_get_image_id(el)))

\* text += self.parse_image(element)
AddImage(acc, img) ==
    IF img.exc # NoEx THEN [acc EXCEPT !.s.err = img.exc]
    ELSE [acc EXCEPT !.text = @ \o img.out]

\* text += escape(...), then the bookkeeping of the branch
AddText(acc, e, el) ==
    IF e.exc # NoEx THEN [acc EXCEPT !.s.err = e.exc]
    ELSE [acc EXCEPT !.text = @ \o e.out, !.s.visited_els = Append(@, el)]

AddDelText(acc, e) ==
    IF e.exc # NoEx THEN [acc EXCEPT !.s.err = e.exc]
    ELSE [acc EXCEPT !.text = @ \o e.out, !.is_deleted = TRUE]

\* text += escape(el.parent.find_next('t', count).text)
AddNextText(acc, n) ==
    IF n.exc # NoEx THEN [acc EXCEPT !.s.err = n.exc]
    ELSE IF n.el = NoneEl THEN [acc EXCEPT !.s.err = "AttributeError"]
    ELSE IF escape(Node(n.el).text).exc # NoEx
    THEN [acc EXCEPT !.s.err = escape(Node(n.el).text).exc]
    ELSE [acc EXCEPT !.text = @ \o break_tag \o escape(Node(n.el).text).out,
                     !.count = @ + 1]

\* one iteration of `for element in el` of parse_r;
\* acc = [text, count, is_deleted, s]
RunElement(el, element, acc) ==
    IF Node(element).tag = "t" /\ ~InSeq(el, acc.s.visited_els)
    THEN AddText(acc, escape(Node(find(el, "t")).text), el)
    ELSE IF Node(element).tag = "delText"
    THEN AddDelText(acc, escape(Node(find(el, "delText")).text))
    ELSE IF Node(element).tag \in {"pict", "drawing"}
    THEN AddImage(acc, parse_image(element))
    ELSE IF Node(element).tag = "br"
    THEN (IF Len(find_all(parent(el), "t")) > 0
          THEN AddNextText(acc, find_next(parent(el), "t", acc.count))
          ELSE [acc EXCEPT !.text = @ \o break_tag, !.count = @ + 1])
    ELSE acc

RECURSIVE RunElements(_, _, _)
RunElements(el, i, acc) ==
    IF acc.s.err # NoEx \/ i > Len(Node(el).kids) THEN acc
    ELSE RunElements(el, i + 1, RunElement(el, Append(el, i), acc))

\* the end of parse_r: `if text:` and the styling
RunResult(el, acc) ==
    IF acc.s.err # NoEx THEN Raise(acc.s, acc.s.err)
    ELSE IF acc.text = <<>> THEN Ret(<<>>, acc.s)
    ELSE IF JcError(PprChild(find(parent(el), "pPr"), "jc"))
    THEN Raise(acc.s, "KeyError")
    ELSE Ret(RunStyle(el, acc.text, acc.is_deleted), acc.s)

parse_r(el, s) ==
    RunResult(el, RunElements(el, 1, [text |-> <<>>, count |-> 0,
                                      is_deleted |-> FALSE, s |-> s]))

\* parse_hyperlink without its `if not href`
parse_hyperlink_unchecked(el, text) ==
    hyperlink(text, escape(Href(get(el, "id"))).out)

parse_hyperlink(el, text) ==
    IF Href(get(el, "id")) = None \/ Href(get(el, "id")) = "" THEN text
    ELSE hyperlink(text, escape(Href(get(el, "id"))).out)

continue_loop(next_el, nid, lvl) ==
    IF next_el = NoneEl THEN FALSE
    ELSE IF IsLast(next_el) THEN FALSE
    ELSE IF ~IsListItem(next_el) THEN TRUE
    ELSE NumId(next_el) = nid /\ StrGE(Ilvl(next_el), lvl)

_parse_last_el(last_el, first_el) ==
    IF last_el = NoneEl THEN FALSE
    ELSE IF NumId(last_el) # NumId(first_el) THEN FALSE
    ELSE IF Ilvl(last_el) # Ilvl(first_el) THEN FALSE
    ELSE ~IsFirst(last_el) /\ IsLast(last_el)

_parse_next_element_first(el) ==
    IF ~IsListItem(NextOf(el)) /\ ~IsLast(el) THEN TRUE
    ELSE IF IsFirst(NextOf(el)) /\ NumId(NextOf(el)) = NumId(el) THEN TRUE
    ELSE FALSE

\* the end of parse_list with list_depth left as it is when an ordered list
\* is returned
ListWrapLeaking(lst, parsed, s) ==
    IF lst.exc # NoEx THEN Raise(s, lst.exc)
    ELSE IF lst.val = "bullet" /\ parsed # <<>>
    THEN Ret(unordered_list(parsed), [s EXCEPT !.list_depth = @ - 1])
    ELSE IF lst.val # None /\ lst.val # "" /\ parsed # <<>>
    THEN Ret(ordered_list(parsed, lst.val), s)
    ELSE RetNone([s EXCEPT !.list_depth = @ - 1])

\* the end of parse_list: list_depth -= 1 and the list primitive
ListWrap(lst, parsed, s) ==
    IF lst.exc # NoEx THEN Raise(s, lst.exc)
    ELSE IF lst.val = "bullet" /\ parsed # <<>>
    THEN Ret(unordered_list(parsed), [s EXCEPT !.list_depth = @ - 1])
    ELSE IF lst.val # None /\ lst.val # "" /\ parsed # <<>>
    THEN Ret(ordered_list(parsed, lst.val), [s EXCEPT !.list_depth = @ - 1])
    ELSE RetNone([s EXCEPT !.list_depth = @ - 1])

\* parse_list on entry: list_depth += 1
ListEntered(el, s) ==
    ListLogged([s EXCEPT !.list_depth = @ + 1], "enter", el)

\* parse_list on return
ListReturned(el, r) ==
    IF Failed(r) THEN r ELSE [r EXCEPT !.s = ListLogged(@, "exit", el)]

ListResult(el, last) ==
    IF Failed(last) THEN last
    ELSE ListReturned(el,
             ListWrap(get_list_style(NumId(el), Ilvl(el)), last.out, last.s))

\* the list item of parse_p, around the item's text and its next element
ListItem(nxt) ==
    IF Failed(nxt) THEN nxt ELSE Ret(list_element(nxt.out), nxt.s)

\* parse on entry: the element is appended to visited
Entered(el, s) ==
    [Logged(s, "call", el, FALSE) EXCEPT !.visited = Append(@, el)]

\* parse on return
Returned(el, r) ==
    IF Failed(r) THEN r
    ELSE [r EXCEPT !.s = Logged(@, "return", el, r.none \/ r.out # <<>>)]

\* a paragraph in a table cell; nxt = el.parent.find_next('p', self.count)
CellParagraph(el, parsed, s, nxt) ==
    IF nxt.exc # NoEx THEN Raise(s, nxt.exc)
    ELSE IF nxt.el # NoneEl /\ ~(Len(find_all(parent(el), "tc")) > 0)
    THEN Ret(parsed \o break_tag,
             [s EXCEPT !.count = @ + 1, !.visited_els = Append(@, el)])
    ELSE Ret(parsed, [s EXCEPT !.count = 0])

RECURSIVE parse(_, _), ParseChildren(_, _, _), Dispatch(_, _),
          parse_list(_, _, _), ListLoop(_, _, _, _), ListLast(_, _),
          parse_p(_, _, _)

\* `for child in el: parsed += self.parse(child)`, from child i on
ParseChildren(el, i, acc) ==
    IF Failed(acc) \/ i > Len(Node(el).kids) THEN acc
    ELSE ParseChildren(el, i + 1,
                       Concat(acc.out, parse(Append(el, i), acc.s)))

\* the while loop of parse_list; acc.out is `parsed`.
\* Returns [r, next_el]: the loop's result and next_el when it ends.
ListLoop(el, next_el, lvl, acc) ==
    IF Failed(acc) \/ ~continue_loop(next_el, NumId(el), lvl)
    THEN [r |-> acc, next_el |-> next_el]
    ELSE IF InSeq(next_el, acc.s.visited)
    THEN ListLoop(el, NextOf(next_el), lvl, acc)
    ELSE IF ~IsListItem(next_el) \/ NumId(next_el) # NumId(el)
    THEN [r |-> acc, next_el |-> next_el]
    ELSE ListLoop(el, NextOf(next_el), Ilvl(next_el),
                  Concat(acc.out, parse(next_el, acc.s)))

\* after the loop: the last element of the list
ListLast(el, loop) ==
    IF ~Failed(loop.r) /\ _parse_last_el(loop.next_el, el)
    THEN Concat(loop.r.out, parse(loop.next_el, loop.r.s))
    ELSE loop.r

parse_list(el, text, s) ==
    ListResult(el,
        ListLast(el,
            ListLoop(el, NextOf(el), Ilvl(el),
                     parse_p(el, text, ListEntered(el, s)))))

parse_p(el, text, s) ==
    IF text = <<>> THEN Ret(<<>>, s)
    ELSE IF ~IsListItem(el)
    THEN (IF s.list_depth = 0
          THEN Ret(paragraph(text), ListLogged(s, "paragraph", el))
          ELSE Ret(break_tag \o text, ListLogged(s, "break", el)))
    ELSE IF s.list_depth = 0 THEN parse_list(el, text, s)
    ELSE IF NextOf(el) # NoneEl /\ _parse_next_element_first(el)
    THEN ListItem(Concat(text, parse(NextOf(el), s)))
    ELSE Ret(list_element(text), s)

\* parse after the child loop: the node's own tag and flags;
\* kids is the result of the child loop
Dispatch(el, kids) ==
    IF Failed(kids) THEN kids
    ELSE IF IsFirst(el) THEN parse_list(el, kids.out, kids.s)
    ELSE IF Node(el).tag = "br" /\ get(el, "type") = "page"
    THEN Ret(page_break, kids.s)
    ELSE IF Node(el).tag = "tbl" THEN Ret(table(kids.out), kids.s)
    ELSE IF Node(el).tag = "tr" THEN Ret(table_row(kids.out), kids.s)
    ELSE IF Node(el).tag = "tc" THEN Ret(table_cell(kids.out), kids.s)
    ELSE IF Node(el).tag = "r" /\ Len(Node(el).kids) > 0
    THEN parse_r(el, kids.s)
    ELSE IF Node(el).tag = "p"
    THEN (IF Node(parent(el)).tag = "tc"
          THEN CellParagraph(el, kids.out, kids.s,
                             find_next(parent(el), "p", kids.s.count))
          ELSE parse_p(el, kids.out, kids.s))
    ELSE IF Node(el).tag = "ins"
    THEN Ret(insertion(kids.out, "", ""), kids.s)
    ELSE IF Node(el).tag = "hyperlink"
    THEN Ret(parse_hyperlink(el, kids.out), kids.s)
    ELSE kids

\* parse without its revisit guard
parse_unguarded(el, s) ==
    Returned(el, Dispatch(el, ParseChildren(el, 1, Ret(<<>>, Entered(el, s)))))

parse(el, s) ==
    IF InSeq(el, s.visited)
    THEN Ret(<<>>, Logged(Logged(s, "call", el, FALSE), "return", el, FALSE))
    ELSE Returned(el,
                  Dispatch(el, ParseChildren(el, 1, Ret(<<>>, Entered(el, s)))))

-----------------------------------------------------------------------------
(* The annotation pass *)

\* one iteration of _set_list_attributes, for the numId's paragraph p;
\* a = [items, num_id, ilvl, exc]
SetListItem(a, p, n, l) ==
    IF p = NoneEl \/ l = NoneEl THEN [a EXCEPT !.exc = "AttributeError"]
    ELSE IF get(n, "val") = None \/ get(l, "val") = None
    THEN [a EXCEPT !.exc = "KeyError"]
    ELSE [items |-> a.items \cup {p},
          num_id |-> [q \in DOMAIN a.num_id \cup {p} |->
                        IF q = p THEN get(n, "val") ELSE a.num_id[q]],
          ilvl |-> [q \in DOMAIN a.ilvl \cup {p} |->
                        IF q = p THEN get(l, "val") ELSE a.ilvl[q]],
          exc |-> NoEx]

\* a None parent has no find_first: the searches are made on a paragraph
FirstIn(p, tag) == IF p = NoneEl THEN NoneEl ELSE find_first(p, tag)

RECURSIVE SetListAttributes(_, _, _)
SetListAttributes(list_elements, i, a) ==
    IF a.exc # NoEx \/ i > Len(list_elements) THEN a
    ELSE SetListAttributes(list_elements, i + 1,
            SetListItem(a,
                find_parent_by_tag(list_elements[i], "p"),
                FirstIn(find_parent_by_tag(list_elements[i], "p"), "numId"),
                FirstIn(find_parent_by_tag(list_elements[i], "p"), "ilvl")))

_set_list_attributes(el) ==
    SetListAttributes(find_all(el, "numId"), 1,
                      [items |-> {}, num_id |-> <<>>, ilvl |-> <<>>, exc |-> NoEx])

Body == find_first(<<>>, "body")

\* the list-item paragraphs that are direct children of the body
ListElements(a) ==
    LET IsLi(c) == Node(c).tag = "p" /\ c \in a.items
    IN SelectSeq(getchildren(Body), IsLi)

\* the first of les with its (num_id, ilvl)
Firsts(a, les) ==
    {les[i] : i \in {j \in 1..Len(les) :
        \A k \in 1..(j - 1) :
            ~(a.num_id[les[k]] = a.num_id[les[j]]
              /\ a.ilvl[les[k]] = a.ilvl[les[j]])}}

\* the last of les with its (num_id, ilvl)
LastsPerLevel(a, les) ==
    {les[i] : i \in {j \in 1..Len(les) :
        \A k \in (j + 1)..Len(les) :
            ~(a.num_id[les[k]] = a.num_id[les[j]]
              /\ a.ilvl[les[k]] = a.ilvl[les[j]])}}

\* the last of les with its num_id
Lasts(a, les) ==
    {les[i] : i \in {j \in 1..Len(les) :
        \A k \in (j + 1)..Len(les) : a.num_id[les[k]] # a.num_id[les[j]]}}

FirstListItems(a) == Firsts(a, ListElements(a))

LastListItems(a) == Lasts(a, ListElements(a))

\* the body's paragraphs and tables, with or without text
AllChildren ==
    LET IsBlock(c) == Node(c).tag \in {"p", "tbl"}
    IN SelectSeq(getchildren(Body), IsBlock)

\* the body's paragraphs and tables that have a text node beneath them
ContentChildren ==
    LET HasText(c) == Node(c).tag \in {"p", "tbl"} /\ has_child_deep(c, "t")
    IN SelectSeq(getchildren(Body), HasText)

\* the chain closed into a ring: the last content child links to the first
LinksCyclic(children) ==
    [c \in {children[i] : i \in 1..Len(children)} |->
        children[((CHOOSE j \in 1..Len(children) : children[j] = c)
                    % Len(children)) + 1]]

Links(children) ==
    [c \in {children[i] : i \in 1..(Len(children) - 1)} |->
        children[(CHOOSE j \in 1..(Len(children) - 1) : children[j] = c) + 1]]

NextLinks == Links(ContentChildren)

-----------------------------------------------------------------------------
(* The conversion: parse_begin, step by step *)

Fields ==
    [visited |-> visited, visited_els |-> visited_els, count |-> count,
     list_depth |-> list_depth, err |-> err, log |-> log,
     list_log |-> list_log]

\* the fields after a step
Store(s) ==
    /\ visited' = s.visited
    /\ visited_els' = s.visited_els
    /\ count' = s.count
    /\ list_depth' = s.list_depth
    /\ err' = s.err
    /\ log' = s.log
    /\ list_log' = s.list_log

Input == <<root, numbering_root, rels_dict>>
Comments == <<comment_root, comment_store, comment_calls>>
Annotations ==
    <<is_list_item, num_id, ilvl, is_first_list_item, is_last_list_item, next>>
Walk == <<visited, visited_els, count, list_depth, log, list_log>>

\* the annotations after _set_list_attributes returned a
Annotated(a) ==
    /\ is_list_item' = a.items
    /\ num_id' = a.num_id
    /\ ilvl' = a.ilvl
    /\ err' = a.exc
    /\ IF a.exc # NoEx
       THEN /\ pc' = "failed"
            /\ UNCHANGED <<is_first_list_item, is_last_list_item, next>>
       ELSE /\ is_first_list_item' = FirstListItems(a)
            /\ is_last_list_item' = LastListItems(a)
            /\ next' = NextLinks
            /\ pc' = "annotated"

\* parse_begin up to the call of parse
Annotate ==
    /\ pc = "init"
    /\ Annotated(_set_list_attributes(<<>>))
    /\ UNCHANGED <<Input, Comments, finished, Walk, idx, body_parsed,
                   parsed_out>>

\* parse(root) and parse(body) up to their child loops
ParseEnter ==
    /\ pc = "annotated"
    /\ Store(Entered(Body, Entered(<<>>, Fields)))
    /\ idx' = 1
    /\ body_parsed' = <<>>
    /\ pc' = "body"
    /\ UNCHANGED <<Input, Comments, finished, Annotations, parsed_out>>

\* the state after one iteration of the loop that gave r
StoreChild(r) ==
    /\ Store(r.s)
    /\ body_parsed' = IF Failed(r) THEN body_parsed ELSE r.out
    /\ pc' = IF Failed(r) THEN "failed" ELSE "body"

\* one iteration of the loop with a renderer that unlinks the child it has
\* rendered (child.next = None)
ParseChildUnlinking ==
    /\ pc = "body"
    /\ idx <= Len(Node(Body).kids)
    /\ StoreChild(Concat(body_parsed, parse(Append(Body, idx), Fields)))
    /\ idx' = idx + 1
    /\ next' = [c \in DOMAIN next \ {Append(Body, idx)} |-> next[c]]
    /\ UNCHANGED <<Input, Comments, finished, is_list_item, num_id, ilvl,
                   is_first_list_item, is_last_list_item, parsed_out>>

\* one iteration of parse(body)'s loop: parsed += self.parse(child)
ParseChild ==
    /\ pc = "body"
    /\ idx <= Len(Node(Body).kids)
    /\ StoreChild(Concat(body_parsed, parse(Append(Body, idx), Fields)))
    /\ idx' = idx + 1
    /\ UNCHANGED <<Input, Comments, finished, Annotations, parsed_out>>

\* the state after parse(root) returned d: self._parsed += d
StoreParsed(d) ==
    /\ Store(d.s)
    /\ parsed_out' = parsed_out \o d.out

\* the loop is over: parse(body) and parse(root) return, _parsed is extended
ParseExit ==
    /\ pc = "body"
    /\ idx > Len(Node(Body).kids)
    /\ StoreParsed(Returned(<<>>,
           Dispatch(<<>>, Returned(Body,
               Dispatch(Body, Ret(body_parsed, Fields))))))
    /\ pc' = "done"
    /\ UNCHANGED <<Input, Comments, finished, Annotations, idx, body_parsed>>

Next == Annotate \/ ParseEnter \/ ParseChild \/ ParseExit

-----------------------------------------------------------------------------
(* The comment store *)

MaxCalls == 3

\* a comment element: its attributes and the text of its t descendants
Comment(id, author, date, texts) ==
    [id |-> id, author |-> author, date |-> date, texts |-> texts]

NoEntry == [author |-> None, date |-> None, text |-> None]

\* ids_and_info[key] = value
Put(entries, key, value) ==
    [k \in DOMAIN entries \cup {key} |->
        IF k = key THEN value ELSE entries[k]]

\* one iteration of the loop over the comments; acc = [exc, entries]:
\* attrib[...] raises KeyError, find_all('t')[0] raises IndexError
AddComment(acc, c) ==
    IF acc.exc # NoEx THEN acc
    ELSE IF c.author = Absent \/ c.date = Absent
    THEN [acc EXCEPT !.exc = "KeyError"]
    ELSE IF c.texts = <<>> THEN [acc EXCEPT !.exc = "IndexError"]
    ELSE IF c.id = Absent THEN [acc EXCEPT !.exc = "KeyError"]
    ELSE [acc EXCEPT !.entries =
              Put(@, c.id, [author |-> c.author, date |-> c.date,
                            text |-> c.texts[1]])]

RECURSIVE BuildStore(_, _, _)
BuildStore(comments, i, acc) ==
    IF i > Len(comments) THEN acc
    ELSE BuildStore(comments, i + 1, AddComment(acc, comments[i]))

\* return self.comment_store[doc_id], store being the store at that point
Lookup(store, doc_id, built) ==
    IF doc_id \in DOMAIN store.entries
    THEN [store |-> store, exc |-> NoEx, empty |-> FALSE,
          entry |-> store.entries[doc_id], built |-> built]
    ELSE [store |-> store, exc |-> "KeyError", empty |-> FALSE,
          entry |-> NoEntry, built |-> built]

\* the end of get_comments after the loop gave acc
Built(acc, doc_id) ==
    IF acc.exc # NoEx
    THEN [store |-> comment_store, exc |-> acc.exc, empty |-> FALSE,
          entry |-> NoEntry, built |-> FALSE]
    ELSE Lookup([present |-> TRUE, entries |-> acc.entries], doc_id, TRUE)

\* the store afterwards, the exception raised, whether '' was returned, the
\* entry returned, and whether the call built the store
get_comments(doc_id) ==
    IF ~comment_root.present
    THEN [store |-> comment_store, exc |-> NoEx, empty |-> TRUE,
          entry |-> NoEntry, built |-> FALSE]
    ELSE IF comment_store.present THEN Lookup(comment_store, doc_id, FALSE)
    ELSE Built(BuildStore(comment_root.comments, 1,
                          [exc |-> NoEx, entries |-> <<>>]), doc_id)

\* the state after a call that gave r
Called(doc_id, r) ==
    /\ comment_store' = r.store
    /\ comment_calls' =
          Append(comment_calls,
                 [id |-> doc_id, exc |-> r.exc, empty |-> r.empty,
                  entry |-> r.entry, built |-> r.built])

\* a call of get_comments, during the walk or after it
GetComments(doc_id) ==
    /\ pc \in {"body", "done"}
    /\ Len(comment_calls) < MaxCalls
    /\ Called(doc_id, get_comments(doc_id))
    /\ UNCHANGED <<Input, comment_root, finished, Annotations, Walk, pc, idx,
                   body_parsed, parsed_out, err>>

-----------------------------------------------------------------------------
(* A session: one conversion after another, each with a parser of its own *)

MaxConversions == 3

\* the parser of the conversion that ended: what it was given and its _parsed
Finished ==
    [root |-> root, numbering_root |-> numbering_root,
     rels_dict |-> rels_dict, parsed |-> parsed_out, err |-> err]

\* __init__ with one visited list for all parsers
BlankSharingVisited ==
    /\ comment_store' = NoStore
    /\ visited' = visited
    /\ visited_els' = <<>>
    /\ count' = 0
    /\ list_depth' = 0

\* "all blank when we init": the fields __init__ gives the new parser
Blank ==
    /\ comment_store' = NoStore
    /\ visited' = <<>>
    /\ visited_els' = <<>>
    /\ count' = 0
    /\ list_depth' = 0

\* the elements of a newly parsed tree have the attributes of their class
Defaults ==
    /\ is_list_item' = {}
    /\ num_id' = <<>>
    /\ ilvl' = <<>>
    /\ is_first_list_item' = {}
    /\ is_last_list_item' = {}
    /\ next' = <<>>

\* DocxParser(...) up to the call of parse_begin, after an earlier conversion
NewConversion(document, numbering, comments) ==
    /\ pc \in {"done", "failed"}
    /\ Len(finished) + 1 < MaxConversions
    /\ finished' = Append(finished, Finished)
    /\ root' = document
    /\ numbering_root' = numbering
    /\ comment_root' = comments
    /\ Blank
    /\ Defaults
    /\ pc' = "init"
    /\ idx' = 0
    /\ body_parsed' = <<>>
    /\ parsed_out' = <<>>
    /\ err' = NoEx
    /\ log' = <<>>
    /\ list_log' = <<>>
    /\ comment_calls' = <<>>
    /\ UNCHANGED rels_dict

-----------------------------------------------------------------------------
(* Documents *)

T(text) == El("t", Attrs0, text, <<>>)
R(kids) == El("r", Attrs0, None, kids)
P(kids) == El("p", Attrs0, None, kids)
Br == El("br", Attrs0, None, <<>>)
PageBr == El("br", [Attrs0 EXCEPT !.type = "page"], None, <<>>)
Val(tag, val) == El(tag, [Attrs0 EXCEPT !.val = val], None, <<>>)
NumPr(nid, lvl) ==
    El("pPr", Attrs0, None,
       <<El("numPr", Attrs0, None, <<Val("ilvl", lvl), Val("numId", nid)>>)>>)
Tc(kids) == El("tc", Attrs0, None, kids)
Tbl(cells) == El("tbl", Attrs0, None, <<El("tr", Attrs0, None, cells)>>)
Document(blocks) ==
    El("document", Attrs0, None, <<El("body", Attrs0, None, blocks)>>)

Lvl(lvl, numFmt) == [ilvl |-> lvl, numFmt |-> numFmt]
NoNumbering == [present |-> FALSE, nums |-> <<>>, abstractNums |-> <<>>]
\* num 1 is decimal / lowerLetter, num 2 is bullet
Numbering ==
    [present |-> TRUE,
     nums |-> <<[numId |-> "1", abstractNumId |-> "7"],
                [numId |-> "2", abstractNumId |-> "8"]>>,
     abstractNums |->
        <<[abstractNumId |-> "7",
           lvls |-> <<Lvl("0", "decimal"), Lvl("1", "lowerLetter")>>],
          [abstractNumId |-> "8",
           lvls |-> <<Lvl("0", "bullet"), Lvl("1", "bullet")>>]>>]
\* num 2 is not defined
PartialNumbering ==
    [present |-> TRUE,
     nums |-> <<[numId |-> "1", abstractNumId |-> "7"]>>,
     abstractNums |->
        <<[abstractNumId |-> "7",
           lvls |-> <<Lvl("0", "decimal"), Lvl("1", "lowerLetter")>>]>>]

SeqsUpTo(S, n) == UNION {[1..k -> S] : k \in 0..n}

InitWalk ==
    /\ pc = "init"
    /\ comment_store = NoStore
    /\ comment_calls = <<>>
    /\ finished = <<>>
    /\ idx = 0
    /\ is_list_item = {}
    /\ num_id = <<>>
    /\ ilvl = <<>>
    /\ is_first_list_item = {}
    /\ is_last_list_item = {}
    /\ next = <<>>
    /\ visited = <<>>
    /\ visited_els = <<>>
    /\ count = 0
    /\ list_depth = 0
    /\ body_parsed = <<>>
    /\ parsed_out = <<>>
    /\ err = NoEx
    /\ log = <<>>
    /\ list_log = <<>>

Rels == [x \in {"rId1"} |-> "http://g"]

\* the text of the body's i-th block, so that output can be traced to it
Txt == <<"A", "B", "C", "D", "E", "F">>

TextP(text) == P(<<R(<<T(text)>>)>>)
Li(nid, lvl, text) == P(<<NumPr(nid, lvl), R(<<T(text)>>)>>)
EmptyLi(nid, lvl) == P(<<NumPr(nid, lvl)>>)

-----------------------------------------------------------------------------
(* Spec: bodies of paragraphs, list items and tables *)

MaxBody == 3

Kinds == {"p", "empty", "li10", "li11", "li20", "emptyli", "tbl", "br"}

Block(kind, text) ==
    CASE kind = "p" -> TextP(text)
      [] kind = "empty" -> P(<<>>)
      [] kind = "li10" -> Li("1", "0", text)
      [] kind = "li11" -> Li("1", "1", text)
      [] kind = "li20" -> Li("2", "0", text)
      [] kind = "li21" -> Li("2", "1", text)
      [] kind = "emptyli" -> EmptyLi("1", "0")
      [] kind = "emptyli2" -> EmptyLi("2", "0")
      [] kind = "tbl" -> Tbl(<<Tc(<<TextP(text), TextP("x")>>)>>)
      [] kind = "br" -> P(<<R(<<T(text), Br, T("y")>>)>>)

Blocks(kinds) == [i \in 1..Len(kinds) |-> Block(kinds[i], Txt[i])]

Init ==
    /\ InitWalk
    /\ comment_root = NoComments
    /\ \E kinds \in SeqsUpTo(Kinds, MaxBody) : root = Document(Blocks(kinds))
    /\ numbering_root \in {Numbering, NoNumbering}
    /\ rels_dict = Rels

Spec == Init /\ [][Next]_vars

-----------------------------------------------------------------------------
(* SpecRun: one paragraph of one or two runs of text nodes and breaks,
   between two plain paragraphs *)

MaxRunKids == 3

RunKinds == {"t", "br", "page"}

\* the text of the k-th child of the paragraph's j-th run
RunTxt ==
    <<<<"a1", "a2", "a3", "a4", "a5">>, <<"b1", "b2", "b3", "b4", "b5">>>>

RunKid(kind, text) ==
    CASE kind = "t" -> T(text)
      [] kind = "br" -> Br
      [] kind = "page" -> PageBr

RunOf(j, kinds) == R([k \in 1..Len(kinds) |-> RunKid(kinds[k], RunTxt[j][k])])

RunShapes == SeqsUpTo(RunKinds, MaxRunKids) \ {<<>>}

RunParagraphs ==
    {P(<<RunOf(1, k1)>>) : k1 \in RunShapes}
        \cup {P(<<RunOf(1, k1), RunOf(2, k2)>>) : k1 \in RunShapes, k2 \in RunShapes}

InitRun ==
    /\ InitWalk
    /\ comment_root = NoComments
    /\ \E para \in RunParagraphs : root = Document(<<TextP("x"), para, TextP("y")>>)
    /\ numbering_root = NoNumbering
    /\ rels_dict = Rels

SpecRun == InitRun /\ [][Next]_vars

-----------------------------------------------------------------------------
(* SpecStyle: one run of text whose properties hold b, i and u, each absent
   or with one of the values a document can give it *)

StyleVals == {Absent, "", "true", "on", "1", "false", "off", "none", "0"}
Missing == "missing"

Prop(tag, v) == IF v = Missing THEN <<>> ELSE <<Val(tag, v)>>

StyledRun(b, i, u) ==
    R(<<El("rPr", Attrs0, None, Prop("b", b) \o Prop("i", i) \o Prop("u", u)),
        T("A")>>)

InitStyle ==
    /\ InitWalk
    /\ comment_root = NoComments
    /\ \E b, i, u \in StyleVals \cup {Missing} :
          root = Document(<<P(<<StyledRun(b, i, u)>>)>>)
    /\ numbering_root = NoNumbering
    /\ rels_dict = Rels

SpecStyle == InitStyle /\ [][Next]_vars

-----------------------------------------------------------------------------
(* SpecList: bodies of list items, with and without text, and plain
   paragraphs, under a numbering part that defines both lists, one of
   them, or is missing *)

MaxListBody == 4

ListKinds == {"p", "li10", "li11", "li20", "emptyli"}

InitList ==
    /\ InitWalk
    /\ comment_root = NoComments
    /\ \E kinds \in SeqsUpTo(ListKinds, MaxListBody) :
          root = Document(Blocks(kinds))
    /\ numbering_root \in {Numbering, PartialNumbering, NoNumbering}
    /\ rels_dict = Rels

SpecList == InitList /\ [][Next]_vars

-----------------------------------------------------------------------------
(* SpecTable: one table of one row of one or two cells; a cell holds
   paragraphs, with and without text, and paragraphs inside another
   element *)

MaxCellKids == 3

CellKinds == {"p", "empty", "sdt"}

Sdt(kids) == El("sdt", Attrs0, None, kids)

\* the text of the k-th child of the row's c-th cell
CellTxt ==
    <<<<"c1", "c2", "c3", "c4", "c5">>, <<"d1", "d2", "d3", "d4", "d5">>>>

CellKid(kind, text) ==
    CASE kind = "p" -> TextP(text)
      [] kind = "empty" -> P(<<>>)
      [] kind = "sdt" -> Sdt(<<TextP(text)>>)

CellOf(c, kinds) ==
    Tc([k \in 1..Len(kinds) |-> CellKid(kinds[k], CellTxt[c][k])])

CellShapes == SeqsUpTo(CellKinds, MaxCellKids)

Rows ==
    {<<CellOf(1, k1)>> : k1 \in CellShapes}
        \cup {<<CellOf(1, k1), CellOf(2, k2)>> : k1 \in CellShapes, k2 \in CellShapes}

InitTable ==
    /\ InitWalk
    /\ comment_root = NoComments
    /\ \E cells \in Rows : root = Document(<<Tbl(cells)>>)
    /\ numbering_root = NoNumbering
    /\ rels_dict = Rels

SpecTable == InitTable /\ [][Next]_vars

-----------------------------------------------------------------------------
(* SpecPara: one paragraph, with or without justification and indentation,
   of one or two runs; a run has styles or none, holds text, an empty text
   node or deleted text, and is a child of the paragraph, of a hyperlink or
   of an insertion *)

Hyperlink(id, kids) == El("hyperlink", [Attrs0 EXCEPT !.id = id], None, kids)
Ins(kids) == El("ins", Attrs0, None, kids)
DelText(text) == El("delText", Attrs0, text, <<>>)
RPr(kids) == El("rPr", Attrs0, None, kids)
PPr(kids) == El("pPr", Attrs0, None, kids)
Jc(val) == Val("jc", val)
Ind(left, right, firstLine) ==
    El("ind", [Attrs0 EXCEPT !.left = left, !.right = right,
                             !.firstLine = firstLine], None, <<>>)

PprKinds == {"none", "right", "center", "indL", "indR", "indAll", "rightInd"}

ParaProps(kind) ==
    CASE kind = "none" -> <<>>
      [] kind = "right" -> <<PPr(<<Jc("right")>>)>>
      [] kind = "center" -> <<PPr(<<Jc("center")>>)>>
      [] kind = "indL" -> <<PPr(<<Ind("720", Absent, Absent)>>)>>
      [] kind = "indR" -> <<PPr(<<Ind(Absent, "1440", Absent)>>)>>
      [] kind = "indAll" -> <<PPr(<<Ind("720", "1440", "30")>>)>>
      [] kind = "rightInd" -> <<PPr(<<Jc("right"), Ind("720", "1440", Absent)>>)>>

RunStyles == {"plain", "iu", "biu"}

RunProps(style) ==
    CASE style = "plain" -> <<>>
      [] style = "iu" -> <<RPr(<<Val("i", Absent), Val("u", Absent)>>)>>
      [] style = "biu" ->
            <<RPr(<<Val("b", Absent), Val("i", Absent), Val("u", Absent)>>)>>

RunContents == {"t", "empty", "del"}

RunContent(content, text) ==
    CASE content = "t" -> <<T(text)>>
      [] content = "empty" -> <<T(None)>>
      [] content = "del" -> <<DelText(text)>>

Places == {"direct", "link", "ins"}

Placed(place, run) ==
    CASE place = "direct" -> run
      [] place = "link" -> Hyperlink("rId1", <<run>>)
      [] place = "ins" -> Ins(<<run>>)

ItemShapes == RunStyles \X RunContents \X Places

ParaItem(shape, text) ==
    Placed(shape[3], R(RunProps(shape[1]) \o RunContent(shape[2], text)))

StyledParagraphs ==
    {P(ParaProps(pk) \o <<ParaItem(s1, "A")>>) :
        pk \in PprKinds, s1 \in ItemShapes}
        \cup {P(ParaProps(pk) \o <<ParaItem(s1, "A"), ParaItem(s2, "B")>>) :
                pk \in PprKinds, s1 \in ItemShapes, s2 \in ItemShapes}

InitPara ==
    /\ InitWalk
    /\ comment_root = NoComments
    /\ \E para \in StyledParagraphs : root = Document(<<para>>)
    /\ numbering_root = NoNumbering
    /\ rels_dict = Rels

SpecPara == InitPara /\ [][Next]_vars

-----------------------------------------------------------------------------
(* SpecLink: one paragraph with a hyperlink, whose id resolves to a target,
   to an empty target, to nothing, or is missing, around runs or nothing,
   alone or beside a run *)

LinkRels ==
    [x \in {"rId1", "rId2", "rId3"} |->
        CASE x = "rId1" -> "http://g" [] x = "rId2" -> "&" [] x = "rId3" -> ""]

LinkIds == {"rId1", "rId2", "rId3", "rId9", Absent}

BoldRun(text) == R(<<RPr(<<Val("b", Absent)>>), T(text)>>)

LinkInners ==
    {<<>>, <<R(<<>>)>>, <<R(<<T("h")>>)>>, <<BoldRun("h")>>,
     <<R(<<T("h")>>), R(<<T("k")>>)>>}

LinkParagraphs ==
    {P(before \o <<Hyperlink(id, inner)>> \o after) :
        id \in LinkIds, inner \in LinkInners,
        before \in {<<>>, <<R(<<T("x")>>)>>},
        after \in {<<>>, <<R(<<T("y")>>)>>}}

InitLink ==
    /\ InitWalk
    /\ comment_root = NoComments
    /\ \E para \in LinkParagraphs : root = Document(<<para>>)
    /\ numbering_root = NoNumbering
    /\ rels_dict = LinkRels

SpecLink == InitLink /\ [][Next]_vars

-----------------------------------------------------------------------------
(* SpecInline: one paragraph whose runs hold text nodes, drawings, picts and
   footnote references *)

MaxInlineKids == 3

Ext(cx, cy) == El("ext", [Attrs0 EXCEPT !.cx = cx, !.cy = cy], None, <<>>)
Blip(embed, kids) == El("blip", [Attrs0 EXCEPT !.embed = embed], None, kids)
Drawing(kids) ==
    El("drawing", Attrs0, None, <<El("inline", Attrs0, None, kids)>>)
Pict(style, id) ==
    El("pict", Attrs0, None,
       <<El("shape", [Attrs0 EXCEPT !.style = style], None,
            <<El("imagedata", [Attrs0 EXCEPT !.id = id], None, <<>>)>>)>>)
FootnoteReference(id) ==
    El("footnoteReference", [Attrs0 EXCEPT !.id = id], None, <<>>)

\* rId1 is in the relationship table, rId9 is not
InlineKinds ==
    {"t", "sized", "multi", "nosize", "small", "lost", "lostmulti", "pict",
     "fn1", "fn2"}

InlineKid(kind, text) ==
    CASE kind = "t" -> T(text)
      [] kind = "sized" ->
            Drawing(<<Blip("rId1", <<>>), Ext("1600200", "2324100")>>)
      [] kind = "multi" ->
            Drawing(<<Blip("rId1", <<Ext(Absent, Absent)>>),
                      Ext("1600200", "2324100")>>)
      [] kind = "nosize" -> Drawing(<<Blip("rId1", <<>>)>>)
      [] kind = "small" -> Drawing(<<Blip("rId1", <<>>), Ext("9524", "9524")>>)
      [] kind = "lost" -> Drawing(<<Blip("rId9", <<>>)>>)
      [] kind = "lostmulti" ->
            Drawing(<<Blip("rId9", <<Ext(Absent, Absent)>>),
                      Ext("1600200", "2324100")>>)
      [] kind = "pict" -> Pict("width:10px;height:20px", "rId1")
      [] kind = "fn1" -> FootnoteReference("one")
      [] kind = "fn2" -> FootnoteReference("two")

InlineShapes == SeqsUpTo(InlineKinds, MaxInlineKids) \ {<<>>}

\* the children in one run, or each in a run of its own
InlineParagraphs ==
    {P(<<R([k \in 1..Len(kinds) |-> InlineKid(kinds[k], Txt[k])])>>) :
        kinds \in InlineShapes}
    \cup {P([k \in 1..Len(kinds) |-> R(<<InlineKid(kinds[k], Txt[k])>>)]) :
        kinds \in InlineShapes}

InitInline ==
    /\ InitWalk
    /\ comment_root = NoComments
    /\ \E para \in InlineParagraphs : root = Document(<<para>>)
    /\ numbering_root = NoNumbering
    /\ rels_dict = Rels

SpecInline == InitInline /\ [][Next]_vars

-----------------------------------------------------------------------------
(* SpecComments: a conversion with or without a comments part, and calls of
   get_comments *)

MaxComments == 2

CommentKinds == {"c1", "c2", "c1again", "notext"}

CommentOf(kind) ==
    CASE kind = "c1" -> Comment("1", "ann", "d1", <<"hi">>)
      [] kind = "c2" -> Comment("2", "bob", "d2", <<"yo", "more">>)
      [] kind = "c1again" -> Comment("1", "cy", "d3", <<"re">>)
      [] kind = "notext" -> Comment("3", "dan", "d4", <<>>)

CommentParts ==
    {NoComments} \cup
    {[present |-> TRUE, comments |-> [i \in 1..Len(kinds) |-> CommentOf(kinds[i])]] :
        kinds \in SeqsUpTo(CommentKinds, MaxComments)}

CommentIds == {"1", "2", "3", "9"}

InitComments ==
    /\ InitWalk
    /\ comment_root \in CommentParts
    /\ root = Document(<<TextP("A")>>)
    /\ numbering_root = NoNumbering
    /\ rels_dict = Rels

NextComments == Next \/ \E doc_id \in CommentIds : GetComments(doc_id)

SpecComments == InitComments /\ [][NextComments]_vars

-----------------------------------------------------------------------------
(* SpecSession: up to MaxConversions conversions of documents with lists,
   tables and line breaks, with and without a comments part *)

SessionDocuments ==
    {Document(<<TextP("A")>>),
     Document(<<Li("1", "0", "A"), TextP("B"), Li("1", "0", "C")>>),
     Document(<<Li("2", "0", "A"), Li("2", "1", "B")>>),
     Document(<<Tbl(<<Tc(<<TextP("A"), TextP("x")>>)>>)>>),
     Document(<<P(<<R(<<T("A"), Br, T("y")>>)>>), TextP("B")>>),
     Document(<<EmptyLi("1", "0"), TextP("B")>>)}

SessionComments ==
    {NoComments, [present |-> TRUE, comments |-> <<CommentOf("c1")>>]}

InitSession ==
    /\ InitWalk
    /\ comment_root \in SessionComments
    /\ root \in SessionDocuments
    /\ numbering_root = Numbering
    /\ rels_dict = Rels

NextSession ==
    \/ Next
    \/ GetComments("1")
    \/ \E document \in SessionDocuments, comments \in SessionComments :
           NewConversion(document, Numbering, comments)

SpecSession == InitSession /\ [][NextSession]_vars

-----------------------------------------------------------------------------
(* SpecOrder: bodies of paragraphs and list items with at most one
   paragraph that holds an image and no text *)

MaxOrderBody == 4

OrderKinds == {"p", "li10", "li11", "li20", "img"}

ImageP ==
    P(<<R(<<Drawing(<<Blip("rId1", <<>>), Ext("1600200", "2324100")>>)>>)>>)

OrderBlock(kind, text) == IF kind = "img" THEN ImageP ELSE Block(kind, text)

OrderShapes ==
    {kinds \in SeqsUpTo(OrderKinds, MaxOrderBody) :
        Cardinality({k \in 1..Len(kinds) : kinds[k] = "img"}) <= 1}

InitOrder ==
    /\ InitWalk
    /\ comment_root = NoComments
    /\ \E kinds \in OrderShapes :
          root = Document([i \in 1..Len(kinds) |->
                              OrderBlock(kinds[i], Txt[i])])
    /\ numbering_root = Numbering
    /\ rels_dict = Rels

SpecOrder == InitOrder /\ [][Next]_vars

-----------------------------------------------------------------------------
(* The revisit guard *)

Call(el) == [ev |-> "call", el |-> el, nonempty |-> FALSE]
Return(el, nonempty) == [ev |-> "return", el |-> el, nonempty |-> nonempty]

\* log[j] is a call of parse on an element that was passed to parse before
IsRevisit(j) ==
    /\ log[j].ev = "call"
    /\ \E i \in 1..(j - 1) : log[i] = Call(log[j].el)

\* C1: only the first parse(el) can produce output: every later parse(el)
\* returns the empty string at once (the next event of the trace is its
\* empty return, so no child is entered and no primitive is called), every
\* element passed to parse stays in visited, and visited never holds an
\* element twice.
RevisitGuard ==
    /\ \A i, j \in 1..Len(visited) : i # j => visited[i] # visited[j]
    /\ \A j \in 1..Len(log) : InSeq(log[j].el, visited)
    /\ \A j \in 1..Len(log) :
          IsRevisit(j) =>
              /\ j < Len(log)
              /\ log[j + 1] = Return(log[j].el, FALSE)

\* an element whose first parse produced output was passed to parse again
RevisitHappened ==
    /\ pc = "done"
    /\ \E j \in 1..Len(log) :
          /\ IsRevisit(j)
          /\ \E k \in 1..(j - 1) : log[k] = Return(log[j].el, TRUE)

-----------------------------------------------------------------------------
(* Reading a document and its markup *)

Terminal == pc \in {"done", "failed"}

BodyBlocks == Node(Body).kids

\* the children of every run of paragraph para, in document order
RECURSIVE RunKids(_, _)
RunKids(para, j) ==
    IF j > Len(para.kids) THEN <<>>
    ELSE para.kids[j].kids \o RunKids(para, j + 1)

OnlyTags(kids, tags) == \A k \in 1..Len(kids) : kids[k].tag \in tags
IsPageBreak(n) == n.tag = "br" /\ n.attrs.type = "page"
IsLineBreak(n) == n.tag = "br" /\ n.attrs.type # "page"
Some(kids, Test(_)) == \E k \in 1..Len(kids) : Test(kids[k])
None_(kids, Test(_)) == \A k \in 1..Len(kids) : ~Test(kids[k])

Occurrences(m, tok) == Cardinality({k \in 1..Len(m) : m[k] = tok})

\* the markup a sequence of text nodes and page breaks stands for
RECURSIVE Content(_, _)
Content(kids, k) ==
    IF k > Len(kids) THEN <<>>
    ELSE (IF kids[k].tag = "t" THEN escape(kids[k].text).out ELSE page_break)
             \o Content(kids, k + 1)

\* the tokens of markup m that are text or a page break
IsContent(tok) ==
    tok \notin {"<p>", "</p>", "<br />", "<b>", "</b>", "<i>", "</i>",
                "<u>", "</u>"}
ContentOf(m) == SelectSeq(m, IsContent)

\* the paragraph of SpecRun's documents
RunPara == BodyBlocks[2]

-----------------------------------------------------------------------------
(* Runs of text *)

\* C2: a paragraph of one run that holds text nodes only renders as the
\* paragraph of the escaped text of all of them, in document order.
AllTextNodesRendered ==
    (/\ Terminal
     /\ Len(RunPara.kids) = 1
     /\ OnlyTags(RunKids(RunPara, 1), {"t"}))
        => /\ pc = "done"
           /\ parsed_out =
                 paragraph(<<"x">>) \o paragraph(Content(RunKids(RunPara, 1), 1))
                     \o paragraph(<<"y">>)

-----------------------------------------------------------------------------
(* Run styles *)

Disabling == {"off", "false", "none", "0"}

StyleTags == <<"b", "i", "u">>
StyleOpen == <<"<b>", "<i>", "<u>">>

\* the rPr of SpecStyle's run
StyleProps == <<1, 1, 1, 1>>

\* C3: each of b, i, u in the run's properties wraps the run's text if and
\* only if its val is none of off, false, none, 0.
StyleValHonoured ==
    pc = "done" =>
        \A n \in 1..3 :
            has_child(StyleProps, StyleTags[n]) =>
                (InSeq(StyleOpen[n], parsed_out)
                    <=> get(find(StyleProps, StyleTags[n]), "val") \notin Disabling)

-----------------------------------------------------------------------------
(* Lists *)

IsItem(b) == Len(b.kids) > 0 /\ b.kids[1].tag = "pPr"
ItemNum(b) == b.kids[1].kids[1].kids[2].attrs.val
ItemLvl(b) == b.kids[1].kids[1].kids[1].attrs.val
HasRun(b) == Len(b.kids) > 0 /\ b.kids[Len(b.kids)].tag = "r"
TextOf(b) == b.kids[Len(b.kids)].kids[1].text
IsPlain(b) == ~IsItem(b) /\ HasRun(b)
IsTextItem(b) == IsItem(b) /\ HasRun(b)

ListOpen == {"<ol", "<ul>"}
ListClose == {"</ol>", "</ul>"}

\* the number of lists that are open before position k of markup m
RECURSIVE NestingAt(_, _)
NestingAt(m, k) ==
    IF k <= 1 THEN 0
    ELSE NestingAt(m, k - 1)
            + (IF m[k - 1] \in ListOpen THEN 1
               ELSE IF m[k - 1] \in ListClose THEN -1 ELSE 0)

\* markup m holds the top-level paragraph of text q between two list blocks
BetweenLists(m, q) ==
    \E k \in 2..(Len(m) - 3) :
        /\ SubSeq(m, k, k + 2) = paragraph(<<q>>)
        /\ NestingAt(m, k) = 0
        /\ m[k - 1] \in ListClose
        /\ m[k + 3] \in ListOpen

\* the body is the items of list 1, a plain paragraph at position mid, and
\* the items of list 2, each list beginning with an item that has text
TwoLists(mid) ==
    /\ mid \in 2..(Len(BodyBlocks) - 1)
    /\ IsPlain(BodyBlocks[mid])
    /\ \A i \in 1..(mid - 1) : IsItem(BodyBlocks[i]) /\ ItemNum(BodyBlocks[i]) = "1"
    /\ \A i \in (mid + 1)..Len(BodyBlocks) :
          IsItem(BodyBlocks[i]) /\ ItemNum(BodyBlocks[i]) = "2"
    /\ HasRun(BodyBlocks[1])
    /\ HasRun(BodyBlocks[mid + 1])

\* C4: two lists of different num_ids with a plain paragraph between them
\* render as two list blocks with the paragraph between them at top level,
\* in neither list.
ListsStaySeparate ==
    \A mid \in 1..Len(BodyBlocks) :
        (pc = "done" /\ numbering_root = Numbering /\ TwoLists(mid))
            => BetweenLists(parsed_out, TextOf(BodyBlocks[mid]))

\* the body is an item with text, plain paragraphs, and the last item of the
\* same list and level, with text
OneListAround ==
    /\ Len(BodyBlocks) >= 3
    /\ \A i \in {1, Len(BodyBlocks)} :
          /\ IsTextItem(BodyBlocks[i])
          /\ ItemNum(BodyBlocks[i]) = "1"
          /\ ItemLvl(BodyBlocks[i]) = "0"
    /\ \A i \in 2..(Len(BodyBlocks) - 1) : IsPlain(BodyBlocks[i])

\* C5: the plain paragraphs between an item of a list and the list's last
\* item are emitted inside the list, which they do not close, however many
\* they are.
NonListAbsorbed ==
    (Terminal /\ numbering_root = Numbering /\ OneListAround)
        => /\ pc = "done"
           /\ Cardinality({k \in 1..Len(parsed_out) : parsed_out[k] \in ListOpen}) = 1
           /\ \A i \in 2..(Len(BodyBlocks) - 1) :
                 \E k \in 1..Len(parsed_out) :
                     /\ parsed_out[k] = TextOf(BodyBlocks[i])
                     /\ NestingAt(parsed_out, k) >= 1

\* every block of the body is a list item with text
OnlyTextItems ==
    /\ Len(BodyBlocks) >= 1
    /\ \A i \in 1..Len(BodyBlocks) : IsTextItem(BodyBlocks[i])

FirstStyle == get_list_style(ItemNum(BodyBlocks[1]), ItemLvl(BodyBlocks[1]))

\* C6: a list with a non-empty body is the unordered list of the body when
\* the style token found for its first item is bullet, and the ordered list
\* of the body and the token for every other token; it is never dropped.
ListAlwaysWrapped ==
    (Terminal /\ OnlyTextItems /\ FirstStyle.exc = NoEx)
        => /\ pc = "done"
           /\ Len(parsed_out) >= 2
           /\ IF FirstStyle.val = "bullet"
              THEN parsed_out[1] = "<ul>"
              ELSE parsed_out[1] = "<ol" /\ parsed_out[2] = FirstStyle.val

\* the body is a list item without text followed by plain paragraphs
EmptyListFirst ==
    /\ Len(BodyBlocks) >= 1
    /\ IsItem(BodyBlocks[1])
    /\ ~HasRun(BodyBlocks[1])
    /\ \A i \in 2..Len(BodyBlocks) : IsPlain(BodyBlocks[i])

RECURSIVE Paragraphs(_, _)
Paragraphs(blocks, i) ==
    IF i > Len(blocks) THEN <<>>
    ELSE paragraph(<<TextOf(blocks[i])>>) \o Paragraphs(blocks, i + 1)

\* C7: a list whose body is empty yields the empty string: nothing is
\* emitted for it and the conversion goes on to the rest of the body.
EmptyListYieldsNothing ==
    (Terminal /\ numbering_root = Numbering /\ EmptyListFirst)
        => /\ pc = "done"
           /\ parsed_out = Paragraphs(BodyBlocks, 2)

-----------------------------------------------------------------------------
(* Breaks *)

\* C8: a page break in a run puts the page-break primitive at its place
\* among the text, and every text of the run and of the paragraphs around it
\* is in the output once.
PageBreakInPlace ==
    (/\ Terminal
     /\ OnlyTags(RunKids(RunPara, 1), {"t", "br"})
     /\ None_(RunKids(RunPara, 1), IsLineBreak)
     /\ Some(RunKids(RunPara, 1), IsPageBreak))
        => /\ pc = "done"
           /\ ContentOf(parsed_out) =
                 <<"x">> \o Content(RunKids(RunPara, 1), 1) \o <<"y">>

\* the runs of the paragraph hold text nodes and line breaks, one at least
HasLineBreaks ==
    /\ OnlyTags(RunKids(RunPara, 1), {"t", "br"})
    /\ None_(RunKids(RunPara, 1), IsPageBreak)
    /\ Some(RunKids(RunPara, 1), IsLineBreak)

\* C9: with line breaks in a paragraph, the text of each of its text nodes
\* is in the output exactly once.
TextOnceWithBreaks ==
    (pc = "done" /\ HasLineBreaks)
        => \A k \in 1..Len(RunKids(RunPara, 1)) :
               RunKids(RunPara, 1)[k].tag = "t"
                   => Occurrences(parsed_out, RunKids(RunPara, 1)[k].text) = 1

\* C10: a run with a line break never raises, wherever the break stands
\* among the text nodes of the run's parent.
LineBreakNeverRaises == HasLineBreaks => pc # "failed"

-----------------------------------------------------------------------------
(* The annotation pass *)

\* the element of the body's i-th block
BlockEl(i) == Append(Body, i)

ItemPositions == {i \in 1..Len(BodyBlocks) : IsItem(BodyBlocks[i])}

SamePair(i, j) ==
    /\ ItemNum(BodyBlocks[i]) = ItemNum(BodyBlocks[j])
    /\ ItemLvl(BodyBlocks[i]) = ItemLvl(BodyBlocks[j])

EarliestOfPair ==
    {i \in ItemPositions : \A k \in ItemPositions : k < i => ~SamePair(k, i)}

LatestOfNum ==
    {i \in ItemPositions :
        \A k \in ItemPositions :
            k > i => ItemNum(BodyBlocks[k]) # ItemNum(BodyBlocks[i])}

\* C12: after annotation the elements flagged first are exactly the earliest
\* list-item paragraphs of the body for each (num_id, ilvl), and the elements
\* flagged last are exactly the latest for each num_id, whatever their ilvl.
FlagsMarkEnds ==
    pc # "init" =>
        /\ is_first_list_item = {BlockEl(i) : i \in EarliestOfPair}
        /\ is_last_list_item = {BlockEl(i) : i \in LatestOfNum}

\* annotated: a list whose last item is deeper than an earlier item of the
\* same level as its first, so that last-per-level and last-per-num differ
FlagsOnNestedList ==
    /\ pc = "annotated"
    /\ \E i, j, k \in ItemPositions :
          /\ i < j /\ j < k
          /\ SamePair(i, j)
          /\ ItemNum(BodyBlocks[k]) = ItemNum(BodyBlocks[i])
          /\ ~SamePair(j, k)
          /\ BlockEl(i) \in is_first_list_item
          /\ BlockEl(j) \notin is_last_list_item
          /\ BlockEl(k) \in is_first_list_item \cap is_last_list_item

RECURSIVE HasBelow(_, _)
HasBelow(n, tag) ==
    \E k \in 1..Len(n.kids) : n.kids[k].tag = tag \/ HasBelow(n.kids[k], tag)

ContentPositions ==
    {i \in 1..Len(BodyBlocks) :
        BodyBlocks[i].tag \in {"p", "tbl"} /\ HasBelow(BodyBlocks[i], "t")}

Later(i) == {k \in ContentPositions : k > i}

NextContent(i) == CHOOSE k \in Later(i) : \A m \in Later(i) : k <= m

\* C13: after annotation the next links are one chain over the body's
\* paragraphs and tables that have a text node beneath them: each points to
\* the next of them in document order, the last of them and every other
\* node have no next.
NextChain ==
    pc # "init" =>
        /\ DOMAIN next = {BlockEl(i) : i \in {j \in ContentPositions : Later(j) # {}}}
        /\ \A i \in ContentPositions :
              Later(i) # {} => next[BlockEl(i)] = BlockEl(NextContent(i))

\* annotated: a link that passes over a block without text
ChainSkipsTextless ==
    /\ pc = "annotated"
    /\ \E i \in ContentPositions :
          /\ Later(i) # {}
          /\ NextContent(i) > i + 1
          /\ next[BlockEl(i)] = BlockEl(NextContent(i))
          /\ BlockEl(i + 1) \notin DOMAIN next

\* C14: without a numbering part no paragraph is a list item after
\* annotation, no element is flagged first or last, and the conversion
\* completes without error.
NoNumberingNoLists ==
    (numbering_root = NoNumbering /\ pc # "init") =>
        /\ is_list_item = {}
        /\ is_first_list_item = {}
        /\ is_last_list_item = {}
        /\ pc # "failed"

-----------------------------------------------------------------------------
(* Table cells *)

\* the cells of SpecTable's row
RowCells == BodyBlocks[1].kids[1].kids

\* the cell has a paragraph after its k-th child
ParagraphAfter(cell, k) ==
    \E j \in (k + 1)..Len(cell.kids) : cell.kids[j].tag = "p"

\* the markup of a cell from its k-th child on: the content of each
\* paragraph, a break tag after it when another paragraph of the cell
\* follows, and the markup of every other child as it stands
RECURSIVE CellContent(_, _)
CellContent(cell, k) ==
    IF k > Len(cell.kids) THEN <<>>
    ELSE (IF cell.kids[k].tag = "p"
          THEN (IF HasRun(cell.kids[k]) THEN <<TextOf(cell.kids[k])>> ELSE <<>>)
                  \o (IF ParagraphAfter(cell, k) THEN break_tag ELSE <<>>)
          ELSE paragraph(<<TextOf(cell.kids[k].kids[1])>>))
             \o CellContent(cell, k + 1)

RECURSIVE CellsMarkup(_, _)
CellsMarkup(cells, k) ==
    IF k > Len(cells) THEN <<>>
    ELSE table_cell(CellContent(cells[k], 1)) \o CellsMarkup(cells, k + 1)

\* C15: a cell of n paragraphs holds a break tag after each paragraph but
\* the last, n - 1 in all and none after the last, whatever else the cell
\* and the cells before it hold.
BreaksBetweenCellParagraphs ==
    Terminal =>
        /\ pc = "done"
        /\ parsed_out = table(table_row(CellsMarkup(RowCells, 1)))

-----------------------------------------------------------------------------
(* Runs of a styled paragraph *)

\* the paragraph of SpecPara's and SpecLink's documents
Para == BodyBlocks[1]

IsNotProps(n) == n.tag # "pPr"
ParaItems == SelectSeq(Para.kids, IsNotProps)

\* the child with the tag of the paragraph's pPr
HasProp(tag) ==
    /\ Len(Para.kids) > 0
    /\ Para.kids[1].tag = "pPr"
    /\ \E k \in 1..Len(Para.kids[1].kids) : Para.kids[1].kids[k].tag = tag
PropOf(tag) ==
    Para.kids[1].kids[CHOOSE k \in 1..Len(Para.kids[1].kids) :
                          Para.kids[1].kids[k].tag = tag]

Justified(val) == HasProp("jc") /\ PropOf("jc").attrs.val = val

RunIn(item) == IF item.tag = "r" THEN item ELSE item.kids[1]
ContentNode(run) == run.kids[Len(run.kids)]
IsDeleted(run) == ContentNode(run).tag = "delText"
HasStyle(run, tag) ==
    /\ run.kids[1].tag = "rPr"
    /\ \E k \in 1..Len(run.kids[1].kids) : run.kids[1].kids[k].tag = tag

AllDirect == \A k \in 1..Len(ParaItems) : ParaItems[k].tag = "r"
AllWithText ==
    \A k \in 1..Len(ParaItems) : ContentNode(RunIn(ParaItems[k])).text # None
AllEmpty ==
    \A k \in 1..Len(ParaItems) : ContentNode(RunIn(ParaItems[k])).text = None

\* C11: a paragraph whose runs hold an empty text node only renders as
\* nothing: no wrapper, no paragraph markup, no error.
EmptyTextRendersNothing ==
    (Terminal /\ AllDirect /\ AllEmpty) => pc = "done" /\ parsed_out = <<>>

Around(open, close, on, text) ==
    IF on THEN <<open>> \o text \o <<close>> ELSE text

\* the wrappers of a run around its text, from the innermost to the
\* outermost: bold, italic, underline, justification, indent, deletion
WrappedRun(run) ==
    Around("<del>", "</del>", IsDeleted(run),
      Around("<indent", "</indent>", HasProp("ind"),
        Around("<center>", "</center>", Justified("center"),
          Around("<right>", "</right>", Justified("right"),
            Around("<u>", "</u>", HasStyle(run, "u"),
              Around("<i>", "</i>", HasStyle(run, "i"),
                Around("<b>", "</b>", HasStyle(run, "b"),
                       <<ContentNode(run).text>>)))))))

RECURSIVE WrappedRuns(_, _)
WrappedRuns(items, k) ==
    IF k > Len(items) THEN <<>>
    ELSE WrappedRun(RunIn(items[k])) \o WrappedRuns(items, k + 1)

\* markup without the arguments of its indent primitives
IsShape(tok) ==
    tok \in {"<p>", "</p>", "<b>", "</b>", "<i>", "</i>", "<u>", "</u>",
             "<right>", "</right>", "<center>", "</center>", "<indent",
             "</indent>", "<del>", "</del>", "A", "B"}
ShapeOf(m) == SelectSeq(m, IsShape)

\* C16: around the non-empty text of a run the wrappers are nested in the
\* order bold, italic, underline, justification, indent, deletion, bold
\* innermost and deletion outermost.
WrappersInOrder ==
    (Terminal /\ AllDirect /\ AllWithText)
        => /\ pc = "done"
           /\ ShapeOf(parsed_out) = paragraph(WrappedRuns(ParaItems, 1))

\* done: a deleted run with all three styles in a justified, indented
\* paragraph, rendered with all six wrappers
AllWrappersApplied ==
    /\ pc = "done"
    /\ AllDirect
    /\ Len(ParaItems) = 1
    /\ \A tok \in {"<b>", "<i>", "<u>", "<right>", "<indent", "<del>"} :
          InSeq(tok, parsed_out)

\* C17: every run with text of a paragraph, whether a child of the
\* paragraph or of a hyperlink or insertion in it, gets the paragraph's
\* justification and indentation.
EveryRunInheritsParagraph ==
    (Terminal /\ AllWithText)
        => /\ pc = "done"
           /\ Occurrences(parsed_out, "<right>") =
                 (IF Justified("right") THEN Len(ParaItems) ELSE 0)
           /\ Occurrences(parsed_out, "<center>") =
                 (IF Justified("center") THEN Len(ParaItems) ELSE 0)
           /\ Occurrences(parsed_out, "<indent") =
                 (IF HasProp("ind") THEN Len(ParaItems) ELSE 0)

\* the attribute of ind in points, None when it is absent
Points(name) ==
    IF PropOf("ind").attrs[name] = Absent THEN None
    ELSE ToString(IntOf(PropOf("ind").attrs[name]) \div 20)

\* C18: the indent primitive gets left = ind's left / 20, right = ind's
\* right / 20 and firstLine = ind's firstLine / 20, each unset when the
\* attribute is absent.
IndentArguments ==
    (Terminal /\ AllDirect /\ AllWithText /\ HasProp("ind"))
        => /\ pc = "done"
           /\ \E k \in 1..(Len(parsed_out) - 7) :
                 SubSeq(parsed_out, k, k + 7) =
                     <<"<indent", "left", Points("left"), "right",
                       Points("right"), "firstLine", Points("firstLine"), ">">>

-----------------------------------------------------------------------------
(* Hyperlinks *)

IsLink(n) == n.tag = "hyperlink"
LinkAt == CHOOSE k \in 1..Len(Para.kids) : IsLink(Para.kids[k])
Link == Para.kids[LinkAt]

\* the markup of the runs of SpecLink's documents
RECURSIVE RunsMarkup(_, _)
RunsMarkup(runs, k) ==
    IF k > Len(runs) THEN <<>>
    ELSE (IF runs[k].kids = <<>> THEN <<>>
          ELSE Around("<b>", "</b>", HasStyle(runs[k], "b"),
                      <<ContentNode(runs[k]).text>>))
             \o RunsMarkup(runs, k + 1)

InTable == Link.attrs.id \in DOMAIN rels_dict
HasTarget == InTable /\ rels_dict[Link.attrs.id] # ""

LinkMarkup(resolved) ==
    IF resolved
    THEN hyperlink(RunsMarkup(Link.kids, 1), escape(rels_dict[Link.attrs.id]).out)
    ELSE RunsMarkup(Link.kids, 1)

ParagraphOf(text) == IF text = <<>> THEN <<>> ELSE paragraph(text)

LinkParagraph(resolved) ==
    ParagraphOf(RunsMarkup(SubSeq(Para.kids, 1, LinkAt - 1), 1)
                    \o LinkMarkup(resolved)
                    \o RunsMarkup(SubSeq(Para.kids, LinkAt + 1, Len(Para.kids)), 1))

EmptyLinkRendersNothing ==
    (Terminal /\ RunsMarkup(Link.kids, 1) = <<>>)
        => /\ pc = "done"
           /\ ~InSeq("<a", parsed_out)
           /\ (Len(Para.kids) = 1 => parsed_out = <<>>)

-----------------------------------------------------------------------------
(* Images *)

\* the children of the runs of SpecInline's paragraph
InlineKids == RunKids(Para, 1)

IsTextNode(n) == n.tag = "t"
IsDrawing(n) == n.tag = "drawing"
BlipOf(n) == n.kids[1].kids[1]
\* a drawing whose relationship id is not in the relationship table
IsLost(n) == IsDrawing(n) /\ BlipOf(n).attrs.embed \notin DOMAIN rels_dict
IsTextOrLost(n) == IsTextNode(n) \/ IsLost(n)

TextsOf(kids) == Content(SelectSeq(kids, IsTextNode), 1)

\* C21: a paragraph whose runs hold text nodes and images with a
\* relationship id that is missing from the table renders without error as
\* the paragraph of all its text, before and after the images, and as
\* nothing when it has no text.
LostImageKeepsText ==
    (/\ Terminal
     /\ \A k \in 1..Len(InlineKids) : IsTextOrLost(InlineKids[k])
     /\ Some(InlineKids, IsLost))
    => /\ pc = "done"
       /\ parsed_out = ParagraphOf(TextsOf(InlineKids))

\* the first ext of a drawing that has cx and cy
IsSized(n) == n.tag = "ext" /\ n.attrs.cx # Absent /\ n.attrs.cy # Absent
Descendants(n) == [k \in 1..Len(BlipOf(n).kids) |-> BlipOf(n).kids[k]]
                      \o Tail(n.kids[1].kids)
HasSizedExt(n) == Some(Descendants(n), IsSized)
SizedExt(n) == Head(SelectSeq(Descendants(n), IsSized))
IsShown(n) ==
    IsDrawing(n) /\ BlipOf(n).attrs.embed \in DOMAIN rels_dict /\ HasSizedExt(n)
IsTextOrShown(n) == IsTextNode(n) \/ IsShown(n)

\* the image markup the drawings of kids stand for
RECURSIVE Images(_, _)
Images(kids, k) ==
    IF k > Len(kids) THEN <<>>
    ELSE (IF IsDrawing(kids[k])
          THEN image(<<rels_dict[BlipOf(kids[k]).attrs.embed]>>,
                     <<ToString(IntOf(SizedExt(kids[k]).attrs.cx)
                                    \div EMUS_PER_PIXEL), "px">>,
                     <<ToString(IntOf(SizedExt(kids[k]).attrs.cy)
                                    \div EMUS_PER_PIXEL), "px">>)
          ELSE <<>>) \o Images(kids, k + 1)

IsImageToken(tok) ==
    tok \notin {"<p>", "</p>"} /\ \A k \in 1..Len(Txt) : tok # Txt[k]

\* C22: every drawing of the paragraph that holds an ext with cx and cy is
\* emitted with the width cx/9525 and the height cy/9525 of that ext, in
\* pixels, also when an ext without cx and cy precedes it in the drawing.
ImageSizeFromSizedExt ==
    (/\ Terminal
     /\ \A k \in 1..Len(InlineKids) : IsTextOrShown(InlineKids[k])
     /\ Some(InlineKids, IsShown))
    => /\ pc = "done"
       /\ SelectSeq(parsed_out, IsImageToken) = Images(InlineKids, 1)

-----------------------------------------------------------------------------
(* Plain documents *)

IsPlainParagraph(b) ==
    /\ b.tag = "p"
    /\ \A j \in 1..Len(b.kids) : b.kids[j].tag = "r"
    /\ OnlyTags(RunKids(b, 1), {"t"})

\* paragraph(escaped text) of every block, in document order
RECURSIVE PlainMarkup(_, _)
PlainMarkup(blocks, i) ==
    IF i > Len(blocks) THEN <<>>
    ELSE paragraph(Content(RunKids(blocks[i], 1), 1))
             \o PlainMarkup(blocks, i + 1)

\* C23: a body of paragraphs whose runs hold text nodes only renders as the
\* paragraphs, in document order, of the escaped text of all text nodes of
\* all runs of each.
PlainParagraphsInOrder ==
    (/\ Terminal
     /\ \A i \in 1..Len(BodyBlocks) : IsPlainParagraph(BodyBlocks[i]))
    => /\ pc = "done"
       /\ parsed_out = PlainMarkup(BodyBlocks, 1)

-----------------------------------------------------------------------------
(* The comment store *)

CommentsOf == comment_root.comments
KnownIds == {CommentsOf[i].id : i \in 1..Len(CommentsOf)}
\* the last comment with the id: a later comment replaces an earlier one
LastWith(id) ==
    CommentsOf[CHOOSE i \in 1..Len(CommentsOf) :
                  /\ CommentsOf[i].id = id
                  /\ \A j \in (i + 1)..Len(CommentsOf) : CommentsOf[j].id # id]

IsEntryOf(entry, c) ==
    /\ entry.author = c.author
    /\ entry.date = c.date
    /\ InSeq(entry.text, c.texts)

\* C24: without a comments part every get_comments call returns empty and
\* the store stays null.  With one, the store is null before the first call;
\* from the first call on it holds an entry for every comment id, only the
\* first call has built it, and every call for an id of the part returns
\* the author and date of that comment and text of it.
CommentStoreLazyOnce ==
    /\ ~comment_root.present =>
          /\ comment_store = NoStore
          /\ \A j \in 1..Len(comment_calls) :
                comment_calls[j].exc = NoEx /\ comment_calls[j].empty
    /\ (comment_root.present /\ comment_calls = <<>>) => comment_store = NoStore
    /\ (comment_root.present /\ comment_calls # <<>>) =>
          /\ comment_store.present
          /\ DOMAIN comment_store.entries = KnownIds
          /\ \A j \in 1..Len(comment_calls) :
                /\ comment_calls[j].built <=> j = 1
                /\ comment_calls[j].id \in KnownIds =>
                      /\ comment_calls[j].exc = NoEx
                      /\ ~comment_calls[j].empty
                      /\ IsEntryOf(comment_calls[j].entry,
                                   LastWith(comment_calls[j].id))

-----------------------------------------------------------------------------
(* Independent conversions *)

SameInput(a, b) ==
    /\ a.root = b.root
    /\ a.numbering_root = b.numbering_root
    /\ a.rels_dict = b.rels_dict
SameResult(a, b) == a.parsed = b.parsed /\ a.err = b.err

\* C25: every conversion starts with empty visited collections, zero count
\* and list_depth and a null comment store, and two conversions of the same
\* document give the same result, whichever conversions ran before them.
ConversionsIndependent ==
    /\ pc = "init" =>
          /\ visited = <<>>
          /\ visited_els = <<>>
          /\ count = 0
          /\ list_depth = 0
          /\ comment_store = NoStore
    /\ \A i, j \in 1..Len(finished) :
          SameInput(finished[i], finished[j])
              => SameResult(finished[i], finished[j])
    /\ Terminal =>
          \A i \in 1..Len(finished) :
              SameInput(finished[i], Finished)
                  => SameResult(finished[i], Finished)

\* a list was converted, then a document that failed after get_comments had
\* built its store, then the same list again
SameDocumentAgain ==
    /\ pc = "done"
    /\ Len(finished) = 2
    /\ finished[1].root = root
    /\ finished[1].parsed # <<>>
    /\ InSeq("<li>", parsed_out)
    /\ finished[2].root # root
    /\ finished[2].err # NoEx
    /\ comment_store.present

-----------------------------------------------------------------------------
(* Footnote references *)

IsReference(n) == n.tag = "footnoteReference"
IsTextOrReference(n) == IsTextNode(n) \/ IsReference(n)

\* the ids of the paragraph's footnote references, in usage order
ReferenceIds ==
    [k \in 1..Len(SelectSeq(InlineKids, IsReference)) |->
        SelectSeq(InlineKids, IsReference)[k].attrs.id]

FirstUse(ids, k) == CHOOSE j \in 1..k : ids[j] = ids[k] /\ \A i \in 1..(j - 1) : ids[i] # ids[k]

\* the number of the k-th reference: ids are numbered from 1 in order of
\* first use
DisplayNumber(ids, k) ==
    ToString(Cardinality({ids[j] : j \in 1..FirstUse(ids, k)}))

IsDisplayNumber(tok) == tok \in {"1", "2", "3"}

\* C26: the output of a paragraph of text and footnote references shows the
\* references in usage order, each with its display number, the numbers
\* starting at 1 and increasing by one in order of first use.
ReferencesNumberedInUsageOrder ==
    (/\ Terminal
     /\ \A k \in 1..Len(InlineKids) : IsTextOrReference(InlineKids[k])
     /\ Some(InlineKids, IsReference))
    => /\ pc = "done"
       /\ SelectSeq(parsed_out, IsDisplayNumber) =
             [k \in 1..Len(ReferenceIds) |-> DisplayNumber(ReferenceIds, k)]

-----------------------------------------------------------------------------
(* list_depth *)

\* the parse_list activations in progress after the j-th event of list_log
Entered_(j) == Cardinality({i \in 1..j : list_log[i].ev = "enter"})
Exited(j) == Cardinality({i \in 1..j : list_log[i].ev = "exit"})
InProgress(j) == Entered_(j) - Exited(j)

\* the entry of the activation that the exit at j ends: the last entry
\* before j with as many entries as exits between itself and j
EntryOf(j) ==
    CHOOSE i \in 1..(j - 1) :
        /\ list_log[i].ev = "enter"
        /\ InProgress(j) = InProgress(i) - 1
        /\ \A k \in (i + 1)..(j - 1) : InProgress(k) >= InProgress(i)

\* C27: list_depth is the number of parse_list activations in progress: at
\* every entry and return of parse_list and at every non-list paragraph that
\* parse_p renders it is that number and not negative; a return of
\* parse_list puts it back to its value before the entry; it is 0 when the
\* conversion is done; and a non-list paragraph with text is wrapped in the
\* paragraph primitive exactly when no activation is in progress, and is a
\* line break followed by its text otherwise.
ListDepthCountsActivations ==
    /\ list_depth = InProgress(Len(list_log))
    /\ pc = "done" => list_depth = 0
    /\ \A j \in 1..Len(list_log) :
          /\ list_log[j].depth = InProgress(j)
          /\ list_log[j].depth >= 0
          /\ list_log[j].ev = "exit" =>
                /\ list_log[EntryOf(j)].el = list_log[j].el
                /\ list_log[j].depth = list_log[EntryOf(j)].depth - 1
          /\ list_log[j].ev = "paragraph" <=>
                (list_log[j].ev \notin {"enter", "exit"} /\ InProgress(j) = 0)
          /\ list_log[j].ev = "break" <=>
                (list_log[j].ev \notin {"enter", "exit"} /\ InProgress(j) > 0)

\* a list inside a list returned and a paragraph was rendered as a break
\* inside a list
NestedListAndBreakParagraph ==
    /\ pc = "done"
    /\ \E j \in 1..Len(list_log) :
          list_log[j].ev = "exit" /\ list_log[j].depth = 1
    /\ \E j \in 1..Len(list_log) : list_log[j].ev = "break"
    /\ InSeq("<br />", parsed_out)

-----------------------------------------------------------------------------
(* Annotations are read-only while rendering *)

\* the steps of the conversion after the annotation pass
Rendering == pc # "init"

\* C28: rendering never changes an annotation: in every step from the first
\* parse call to the end of the conversion, is_list_item, num_id, ilvl,
\* is_first_list_item, is_last_list_item and next of every element stay as
\* the annotation pass left them, and so do the document, the numbering and
\* the relationships; only the walk's fields and the output change.
RenderingKeepsAnnotations ==
    [][Rendering => UNCHANGED <<Annotations, Input>>]_vars

\* a conversion that rendered a list is done: items were flagged, a first
\* and a last item were marked, content siblings were linked, and the walk
\* changed visited and the output
AnnotatedListRendered ==
    /\ pc = "done"
    /\ is_list_item # {}
    /\ is_first_list_item # {}
    /\ is_last_list_item # {}
    /\ DOMAIN next # {}
    /\ \E e \in is_list_item : Ilvl(e) # None /\ NumId(e) # None
    /\ visited # <<>>
    /\ InSeq("<li>", parsed_out)

-----------------------------------------------------------------------------
(* Termination *)

\* the next chain runs forward through the body's children: every link goes
\* from a child of the body to a later child of the body
ChainForward ==
    \A c \in DOMAIN next :
        /\ InSeq(c, getchildren(Body))
        /\ InSeq(next[c], getchildren(Body))
        /\ c[Len(c)] < next[c][Len(next[c])]

\* the calls of parse in the trace l
Calls(l) == Cardinality({j \in 1..Len(l) : l[j].ev = "call"})

\* what the input allows: one call per element from its parent's loop, and
\* from each body child at most one call per link of the chain, one for the
\* last element and one for the next element of a list item
CallBound ==
    Len(el_iter(<<>>))
        + Len(getchildren(Body)) * (Len(ContentChildren) + 2)

\* the steps a conversion at position p, with parse's loop at child i, still
\* has to take: one per child of the body that the loop has not reached,
\* one to leave the loop, and the steps before the loop
Remaining(p, i) ==
    IF p \in {"done", "failed"} THEN 0
    ELSE IF p = "body" THEN Len(getchildren(Body)) + 2 - i
    ELSE IF p = "annotated" THEN Len(getchildren(Body)) + 2
    ELSE Len(getchildren(Body)) + 3

\* at position p the guard of one of the four steps of the conversion holds
CanStep(p, i) ==
    \/ p = "init"
    \/ p = "annotated"
    \/ p = "body" /\ i <= Len(Node(Body).kids)
    \/ p = "body" /\ i > Len(Node(Body).kids)

\* C29: the conversion terminates: the next chain is finite and runs
\* forward, so the loop of parse_list that follows it ends; after every
\* step every element has been entered at most once (parse appends it to
\* visited when it enters it) and the calls of parse are bounded by the
\* size of the document; and every step brings the conversion closer to
\* its end, done or failed, which it can reach by one more step as long as
\* it has not ended.
ConversionTerminates ==
    [][/\ ChainForward
       /\ \A i, j \in 1..Len(visited') : visited'[i] = visited'[j] => i = j
       /\ Len(visited') <= Len(el_iter(<<>>))
       /\ Calls(log') <= CallBound
       /\ Remaining(pc', idx') < Remaining(pc, idx)
       /\ Remaining(pc', idx') >= 0
       /\ pc' \in {"done", "failed"} \/ CanStep(pc', idx')]_vars

\* a conversion is done in which parse_list followed the chain over several
\* links and reached an element that was already visited
ChainFollowedToTheEnd ==
    /\ pc = "done"
    /\ Cardinality(DOMAIN next) >= 2
    /\ \E j \in 1..Len(log) : IsRevisit(j)
    /\ \E j \in 1..Len(list_log) : list_log[j].ev = "enter"

-----------------------------------------------------------------------------
(* Document order *)

\* the token by which the markup of a child of the body is found in the
\* output: its text, or the image primitive when it holds an image and no
\* text
Marker(block) ==
    IF HasRun(block) /\ IsTextNode(block.kids[Len(block.kids)].kids[1])
    THEN TextOf(block)
    ELSE "<img"

\* where the markup of the body's i-th child is in the output, 0 when the
\* child produced none
MarkupAt(i) ==
    IF InSeq(Marker(BodyBlocks[i]), parsed_out)
    THEN CHOOSE k \in 1..Len(parsed_out) :
            /\ parsed_out[k] = Marker(BodyBlocks[i])
            /\ \A m \in 1..(k - 1) : parsed_out[m] # Marker(BodyBlocks[i])
    ELSE 0

\* C30: the output keeps the document order of the body's children: of two
\* children that both produce markup, the earlier one's markup comes first
\* in the output, also when a paragraph with an image and no text lies
\* between two items of one list.
DocumentOrderKept ==
    pc = "done" =>
        \A i, j \in 1..Len(BodyBlocks) :
            (i < j /\ MarkupAt(i) > 0 /\ MarkupAt(j) > 0)
                => MarkupAt(i) < MarkupAt(j)

====
